---- MODULE Spec2Model ----
(***************************************************************************)
(* Model of the cart and of the shopping-list aggregator of app.js.        *)
(*                                                                         *)
(* A JavaScript string is modelled as the sequence of its UTF-16 code      *)
(* units, so that toLowerCase, trim, === and template concatenation are    *)
(* computed and not assumed.  Each string constant below carries the text  *)
(* it stands for.                                                          *)
(***************************************************************************)
EXTENDS Integers, Sequences, FiniteSets, Bags, TLC

VARIABLES cart, ingredients, last,
          alreadyHaveIngredients,
          selectedEventMenu, currentEventId, activeNav, url, pending,
          menu, runbook, loading, error

\* the cells of the event menus, with the browser's location and the
\* getEventMenu calls that have not settled
eventVars == <<selectedEventMenu, currentEventId, activeNav, url, pending>>

\* the cells of the data-loading effect
dataVars == <<menu, runbook, loading, error>>

vars == <<cart, ingredients, last, alreadyHaveIngredients, eventVars, dataVars>>

(***************************************************************************)
(* String constants of app.js                                              *)
(***************************************************************************)
\* 'Maki Rolls'
MakiRolls == <<77, 97, 107, 105, 32, 82, 111, 108, 108, 115>>
\* 'Speciality Rolls'
SpecialityRolls == <<83, 112, 101, 99, 105, 97, 108, 105, 116, 121, 32, 82, 111, 108, 108, 115>>
\* 'Nigiri'
Nigiri == <<78, 105, 103, 105, 114, 105>>
\* 'Rice'
Rice == <<82, 105, 99, 101>>
\* 'Soy Sauce'
SoySauce == <<83, 111, 121, 32, 83, 97, 117, 99, 101>>
\* 'Wasabi'
Wasabi == <<87, 97, 115, 97, 98, 105>>
\* 'Other'
Other == <<79, 116, 104, 101, 114>>
\* ''
EmptyStr == <<>>

(***************************************************************************)
(* String functions of the JavaScript runtime                              *)
(***************************************************************************)
\* String.prototype.toLowerCase on the ASCII range: 'A'..'Z' -> 'a'..'z'
toLowerCase(s) == [i \in 1..Len(s) |-> IF s[i] \in 65..90 THEN s[i] + 32 ELSE s[i]]

\* the code units String.prototype.trim strips (ASCII white space)
WhiteSpace == {9, 10, 11, 12, 13, 32}

RECURSIVE trimStart(_)
trimStart(s) ==
  IF s # <<>> /\ Head(s) \in WhiteSpace THEN trimStart(Tail(s)) ELSE s

RECURSIVE trimEnd(_)
trimEnd(s) ==
  IF s # <<>> /\ s[Len(s)] \in WhiteSpace
    THEN trimEnd(SubSeq(s, 1, Len(s) - 1))
    ELSE s

\* String.prototype.trim
trim(s) == trimEnd(trimStart(s))

(***************************************************************************)
(* Reference data: the menu items the user can click on                    *)
(***************************************************************************)
\* 'Spicy Tuna Roll'
SpicyTunaRollName == <<83, 112, 105, 99, 121, 32, 84, 117, 110, 97, 32, 82, 111, 108, 108>>
\* 'Salmon'
Salmon == <<83, 97, 108, 109, 111, 110>>
\* 'Tuna'
Tuna == <<84, 117, 110, 97>>
\* 'Spicy Mayo'
SpicyMayo == <<83, 112, 105, 99, 121, 32, 77, 97, 121, 111>>
\* 'Gari'
Gari == <<71, 97, 114, 105>>
\* 'tuna ' (lower case, trailing blank)
TunaLowerPadded == <<116, 117, 110, 97, 32>>
\* ' salmon' (lower case, leading blank)
SalmonLowerPadded == <<32, 115, 97, 108, 109, 111, 110>>
\* 'RICE'
RiceUpper == <<82, 73, 67, 69>>

\* the example item of the specification
SpicyTunaRoll ==
  [name |-> SpicyTunaRollName, category |-> MakiRolls,
   ingredients_inside |-> <<Tuna, Rice>>,
   ingredients_on_top |-> <<SpicyMayo>>]

\* same name in the other roll category; 'Gari' inside and on top, an empty name
SpecialTunaRoll ==
  [name |-> SpicyTunaRollName, category |-> SpecialityRolls,
   ingredients_inside |-> <<TunaLowerPadded, Gari>>,
   ingredients_on_top |-> <<Gari, EmptyStr>>]

\* a non-roll item that lists rice itself, salmon inside and on top, and
\* 'Gari' once
SalmonNigiri ==
  [name |-> Salmon, category |-> Nigiri,
   ingredients_inside |-> <<SalmonLowerPadded, RiceUpper>>,
   ingredients_on_top |-> <<Salmon, Gari>>]

MenuItems == {SpicyTunaRoll, SpecialTunaRoll, SalmonNigiri}

(***************************************************************************)
(* Inputs of setCartQuantity: the integers from QtyBelow under 1 to        *)
(* QtyAbove over 5                                                         *)
(***************************************************************************)
QtyBelow == 2
QtyAbove == 1
QtyInputs == (1 - QtyBelow)..(5 + QtyAbove)

Min(a, b) == IF a < b THEN a ELSE b
Max(a, b) == IF a > b THEN a ELSE b

(***************************************************************************)
(* The cart operations (app.js 349-366), as the updater functions          *)
(* handed to setCart                                                       *)
(***************************************************************************)
\* mutant of sameKey: the category is not compared
sameKey_NameOnly(i, item) == i.name = item.name

\* i.name === item.name && i.category === item.category
sameKey(i, item) == i.name = item.name /\ i.category = item.category

\* { ...i, quantity: q }: the properties of i, and quantity
withQuantity(i, q) ==
  [f \in DOMAIN i \cup {"quantity"} |-> IF f = "quantity" THEN q ELSE i[f]]

\* mutants of addToCart: no search for an existing entry; no cap at 5
addToCart_AlwaysAppend(prev, item) == Append(prev, withQuantity(item, 1))

addToCart_NoCap(prev, item) ==
  IF \E k \in 1..Len(prev) : sameKey(prev[k], item)
    THEN [k \in 1..Len(prev) |->
            IF sameKey(prev[k], item)
              THEN withQuantity(prev[k], prev[k].quantity + 1)
              ELSE prev[k]]
    ELSE Append(prev, withQuantity(item, 1))

addToCart(prev, item) ==
  IF \E k \in 1..Len(prev) : sameKey(prev[k], item)
    THEN [k \in 1..Len(prev) |->
            IF sameKey(prev[k], item)
              THEN withQuantity(prev[k], Min(prev[k].quantity + 1, 5))
              ELSE prev[k]]
    ELSE Append(prev, withQuantity(item, 1))

\* mutant of removeFromCart: the filter keeps the matching entry and drops the rest
removeFromCart_Inverted(prev, item) ==
  LET keep(i) == sameKey(i, item) IN SelectSeq(prev, keep)

removeFromCart(prev, item) ==
  LET keep(i) == ~sameKey(i, item) IN SelectSeq(prev, keep)

\* mutants of setCartQuantity: no early return for qty < 1; min and max swapped
setCartQuantity_NoRemove(prev, item, qty) ==
  [k \in 1..Len(prev) |->
     IF sameKey(prev[k], item)
       THEN withQuantity(prev[k], Min(Max(qty, 1), 5))
       ELSE prev[k]]

setCartQuantity_SwappedClamp(prev, item, qty) ==
  IF qty < 1
    THEN removeFromCart(prev, item)
    ELSE [k \in 1..Len(prev) |->
            IF sameKey(prev[k], item)
              THEN withQuantity(prev[k], Max(Min(qty, 1), 5))
              ELSE prev[k]]

\* mutant of setCartQuantity: an item without entry is inserted at the quantity
setCartQuantity_Upsert(prev, item, qty) ==
  IF qty < 1
    THEN removeFromCart(prev, item)
    ELSE IF \E k \in 1..Len(prev) : sameKey(prev[k], item)
           THEN [k \in 1..Len(prev) |->
                   IF sameKey(prev[k], item)
                     THEN withQuantity(prev[k], Min(Max(qty, 1), 5))
                     ELSE prev[k]]
           ELSE Append(prev, withQuantity(item, Min(Max(qty, 1), 5)))

setCartQuantity(prev, item, qty) ==
  IF qty < 1
    THEN removeFromCart(prev, item)
    ELSE [k \in 1..Len(prev) |->
            IF sameKey(prev[k], item)
              THEN withQuantity(prev[k], Min(Max(qty, 1), 5))
              ELSE prev[k]]

(***************************************************************************)
(* A JavaScript object used as a map (ingredientMap, grouped): the         *)
(* sequence of its [key, val] properties in insertion order, which is the  *)
(* order Object.values and Object.keys return for string keys              *)
(***************************************************************************)
objHas(m, key) == \E k \in 1..Len(m) : m[k].key = key

objIndex(m, key) == CHOOSE k \in 1..Len(m) : m[k].key = key

objGet(m, key) == m[objIndex(m, key)].val

\* m[key] = val: an existing property keeps its place, a new one goes last
objSet(m, key, val) ==
  IF objHas(m, key)
    THEN [m EXCEPT ![objIndex(m, key)] = [key |-> key, val |-> val]]
    ELSE Append(m, [key |-> key, val |-> val])

objValues(m) == [k \in 1..Len(m) |-> m[k].val]

objKeys(m) == [k \in 1..Len(m) |-> m[k].key]

\* Array.prototype.flat on an array of arrays
RECURSIVE flat(_)
flat(arrays) ==
  IF arrays = <<>> THEN <<>> ELSE Head(arrays) \o flat(Tail(arrays))

(***************************************************************************)
(* getCartIngredientsSummary (app.js 152-207).  ingredientsMaster is the   *)
(* sequence Object.values(ingredientsMaster): one array of ingredient      *)
(* records per catalog group.                                              *)
(***************************************************************************)
\* { ...ing, totalQty: q }
withTotalQty(ing, q) ==
  [name |-> ing.name, category |-> ing.category, store |-> ing.store,
   totalQty |-> q]

\* lines 154-157: one working record per lower-cased catalog name
RECURSIVE catalogMap(_, _)
catalogMap(m, ings) ==
  IF ings = <<>> THEN m
  ELSE catalogMap(objSet(m, toLowerCase(Head(ings).name), withTotalQty(Head(ings), 0)),
                  Tail(ings))

\* mutant of hasRolls: any entry counts, whatever its category
hasRolls_AnyEntry(c) == Len(c) > 0

\* lines 160-162
hasRolls(c) ==
  \E k \in 1..Len(c) :
    c[k].category = MakiRolls \/ c[k].category = SpecialityRolls

\* line 166
smartIngredients == <<Rice, SoySauce, Wasabi>>

\* lines 167-172: totalQty = 1 for each smart ingredient the map holds
RECURSIVE addSmart(_, _)
addSmart(m, names) ==
  IF names = <<>> THEN m
  ELSE LET key == toLowerCase(Head(names))
       IN addSmart(IF objHas(m, key)
                     THEN objSet(m, key, withTotalQty(objGet(m, key), 1))
                     ELSE m,
                   Tail(names))

\* mutant of quantityOr1: the entry's quantity is ignored
quantityOr1_AlwaysOne(item) == 1

\* mutant of quantityOr1: a missing quantity counts as 0
quantityOr1_MissingZero(item) ==
  IF "quantity" \in DOMAIN item /\ item.quantity # 0 THEN item.quantity ELSE 0

\* line 177: item.quantity || 1
quantityOr1(item) ==
  IF "quantity" \in DOMAIN item /\ item.quantity # 0 THEN item.quantity ELSE 1

\* lines 179-180: item.ingredients_inside || [], item.ingredients_on_top || []
insideOf(item) ==
  IF "ingredients_inside" \in DOMAIN item THEN item.ingredients_inside ELSE <<>>

onTopOf(item) ==
  IF "ingredients_on_top" \in DOMAIN item THEN item.ingredients_on_top ELSE <<>>

\* lines 179-180: (list || []).map(i => i.trim()).filter(Boolean)
trimmedNames(list) ==
  LET nonEmpty(s) == s # EmptyStr
  IN SelectSeq([k \in 1..Len(list) |-> trim(list[k])], nonEmpty)

\* mutant of addNames: the fallback record starts at 1, not at qty
RECURSIVE addNames_FallbackOne(_, _, _)
addNames_FallbackOne(m, names, qty) ==
  IF names = <<>> THEN m
  ELSE LET ingName == Head(names)
           key == toLowerCase(ingName)
       IN addNames_FallbackOne(
            IF objHas(m, key)
              THEN objSet(m, key,
                          withTotalQty(objGet(m, key), objGet(m, key).totalQty + qty))
              ELSE objSet(m, key,
                          [name |-> ingName, category |-> Other,
                           store |-> EmptyStr, totalQty |-> 1]),
            Tail(names), qty)

\* mutant of addNames: the key is the name as written
RECURSIVE addNames_CaseSensitive(_, _, _)
addNames_CaseSensitive(m, names, qty) ==
  IF names = <<>> THEN m
  ELSE LET ingName == Head(names)
           key == ingName
       IN addNames_CaseSensitive(
            IF objHas(m, key)
              THEN objSet(m, key,
                          withTotalQty(objGet(m, key), objGet(m, key).totalQty + qty))
              ELSE objSet(m, key,
                          [name |-> ingName, category |-> Other,
                           store |-> EmptyStr, totalQty |-> qty]),
            Tail(names), qty)

\* lines 181-189: one item's ingredient names, each adding qty
RECURSIVE addNames(_, _, _)
addNames(m, names, qty) ==
  IF names = <<>> THEN m
  ELSE LET ingName == Head(names)
           key == toLowerCase(ingName)
       IN addNames(IF objHas(m, key)
                     THEN objSet(m, key,
                                 withTotalQty(objGet(m, key),
                                              objGet(m, key).totalQty + qty))
                     ELSE objSet(m, key,
                                 [name |-> ingName, category |-> Other,
                                  store |-> EmptyStr, totalQty |-> qty]),
                   Tail(names), qty)

\* the names of the list without the later repetitions (ignoring case)
RECURSIVE dedupNames(_, _)
dedupNames(names, seen) ==
  IF names = <<>> THEN <<>>
  ELSE IF toLowerCase(Head(names)) \in seen
         THEN dedupNames(Tail(names), seen)
         ELSE <<Head(names)>>
                \o dedupNames(Tail(names), seen \cup {toLowerCase(Head(names))})

\* mutant of addItems: an item's names are deduplicated before they are added
RECURSIVE addItems_Dedup(_, _)
addItems_Dedup(m, c) ==
  IF c = <<>> THEN m
  ELSE addItems_Dedup(addNames(m,
                               dedupNames(trimmedNames(insideOf(Head(c)))
                                            \o trimmedNames(onTopOf(Head(c))),
                                          {}),
                               quantityOr1(Head(c))),
                      Tail(c))

\* lines 176-190: cart.forEach
RECURSIVE addItems(_, _)
addItems(m, c) ==
  IF c = <<>> THEN m
  ELSE addItems(addNames(m,
                         trimmedNames(insideOf(Head(c)))
                           \o trimmedNames(onTopOf(Head(c))),
                         quantityOr1(Head(c))),
                Tail(c))

\* mutant of ingredientMapOf: the smart assignment runs after the accumulation
ingredientMapOf_SmartLast(c, ingredientsMaster) ==
  LET m0 == catalogMap(<<>>, flat(ingredientsMaster))
      m1 == addItems(m0, c)
  IN IF hasRolls(c) THEN addSmart(m1, smartIngredients) ELSE m1

\* lines 154-190: ingredientMap when the accumulation loop has ended
ingredientMapOf(c, ingredientsMaster) ==
  LET m0 == catalogMap(<<>>, flat(ingredientsMaster))
      m1 == IF hasRolls(c) THEN addSmart(m0, smartIngredients) ELSE m0
  IN addItems(m1, c)

\* mutant of groupByCategory: the test totalQty > 0 is missing
RECURSIVE groupByCategory_NoFilter(_, _)
groupByCategory_NoFilter(grouped, ings) ==
  IF ings = <<>> THEN grouped
  ELSE LET ing == Head(ings)
           cat == IF ing.category = EmptyStr THEN Other ELSE ing.category
       IN groupByCategory_NoFilter(
            IF objHas(grouped, cat)
              THEN objSet(grouped, cat, Append(objGet(grouped, cat), ing))
              ELSE objSet(grouped, cat, <<ing>>),
            Tail(ings))

\* lines 193-200: group the records with totalQty > 0 by category || 'Other'
RECURSIVE groupByCategory(_, _)
groupByCategory(grouped, ings) ==
  IF ings = <<>> THEN grouped
  ELSE LET ing == Head(ings)
           cat == IF ing.category = EmptyStr THEN Other ELSE ing.category
       IN groupByCategory(
            IF ing.totalQty > 0
              THEN IF objHas(grouped, cat)
                     THEN objSet(grouped, cat, Append(objGet(grouped, cat), ing))
                     ELSE objSet(grouped, cat, <<ing>>)
              ELSE grouped,
            Tail(ings))

(***************************************************************************)
(* Comparisons and Array.prototype.sort                                    *)
(***************************************************************************)
\* lexicographic comparison of two sequences of numbers: -1, 0 or 1
RECURSIVE seqCompare(_, _)
seqCompare(a, b) ==
  IF a = <<>> /\ b = <<>> THEN 0
  ELSE IF a = <<>> THEN -1
  ELSE IF b = <<>> THEN 1
  ELSE IF Head(a) < Head(b) THEN -1
  ELSE IF Head(a) > Head(b) THEN 1
  ELSE seqCompare(Tail(a), Tail(b))

\* the comparison of sort() without a comparator: by UTF-16 code units
codeUnitCompare(a, b) == seqCompare(a, b)

\* String.prototype.localeCompare under the root collation, on ASCII: the
\* primary level orders white space and punctuation before digits before
\* letters and ignores case; at equal primaries lower case goes first.
\* (The order among punctuation marks is taken to be that of the code units.)
primaryWeight(c) ==
  IF c \in 65..90 THEN 1000 + c + 32
  ELSE IF c \in 97..122 THEN 1000 + c
  ELSE IF c \in 48..57 THEN 500 + c
  ELSE c

tertiaryWeight(c) == IF c \in 65..90 THEN 1 ELSE 0

localeCompare(a, b) ==
  LET p == seqCompare([i \in 1..Len(a) |-> primaryWeight(a[i])],
                      [i \in 1..Len(b) |-> primaryWeight(b[i])])
  IN IF p # 0 THEN p
     ELSE seqCompare([i \in 1..Len(a) |-> tertiaryWeight(a[i])],
                     [i \in 1..Len(b) |-> tertiaryWeight(b[i])])

\* sort() of an array of strings: stable insertion behind every element that
\* does not compare greater
RECURSIVE insertString(_, _)
insertString(sorted, x) ==
  IF sorted = <<>> THEN <<x>>
  ELSE IF codeUnitCompare(Head(sorted), x) > 0 THEN <<x>> \o sorted
  ELSE <<Head(sorted)>> \o insertString(Tail(sorted), x)

RECURSIVE sortStrings(_)
sortStrings(arr) ==
  IF arr = <<>> THEN <<>>
  ELSE insertString(sortStrings(SubSeq(arr, 1, Len(arr) - 1)), arr[Len(arr)])

\* sort((a, b) => a.name.localeCompare(b.name)), stable
RECURSIVE insertByName(_, _)
insertByName(sorted, x) ==
  IF sorted = <<>> THEN <<x>>
  ELSE IF localeCompare(Head(sorted).name, x.name) > 0 THEN <<x>> \o sorted
  ELSE <<Head(sorted)>> \o insertByName(Tail(sorted), x)

\* mutant of sortByName: the names are compared by code units (a.name < b.name)
RECURSIVE insertByNameCodeUnits(_, _)
insertByNameCodeUnits(sorted, x) ==
  IF sorted = <<>> THEN <<x>>
  ELSE IF codeUnitCompare(Head(sorted).name, x.name) > 0 THEN <<x>> \o sorted
  ELSE <<Head(sorted)>> \o insertByNameCodeUnits(Tail(sorted), x)

RECURSIVE sortByName_CodeUnits(_)
sortByName_CodeUnits(arr) ==
  IF arr = <<>> THEN <<>>
  ELSE insertByNameCodeUnits(sortByName_CodeUnits(SubSeq(arr, 1, Len(arr) - 1)),
                             arr[Len(arr)])

RECURSIVE sortByName(_)
sortByName(arr) ==
  IF arr = <<>> THEN <<>>
  ELSE insertByName(sortByName(SubSeq(arr, 1, Len(arr) - 1)), arr[Len(arr)])

\* lines 152-207: { grouped, sortedCats }
getCartIngredientsSummary(c, ingredientsMaster) ==
  LET grouped == groupByCategory(<<>>, objValues(ingredientMapOf(c, ingredientsMaster)))
  IN [grouped |-> [k \in 1..Len(grouped) |->
                     [key |-> grouped[k].key, val |-> sortByName(grouped[k].val)]],
      sortedCats |-> sortStrings(objKeys(grouped))]

(***************************************************************************)
(* getCartIngredientsSummary with the objects it reads and writes.  heap   *)
(* is the sequence of the objects alive during the call: the catalog's     *)
(* records, then the cart's entries, then the objects the call creates.    *)
(* map is ingredientMap: its values are references, positions in heap.     *)
(***************************************************************************)
\* the objects the call receives
objectsOf(c, ingredientsMaster) == flat(ingredientsMaster) \o c

\* mutant of refCatalogMap: the map refers to the catalog's record itself,
\* whose totalQty is set to 0
RECURSIVE refCatalogMap_Alias(_, _)
refCatalogMap_Alias(st, ids) ==
  IF ids = <<>> THEN st
  ELSE LET ing == st.heap[Head(ids)]
       IN refCatalogMap_Alias(
            [heap |-> [st.heap EXCEPT ![Head(ids)] = withTotalQty(ing, 0)],
             map |-> objSet(st.map, toLowerCase(ing.name), Head(ids))],
            Tail(ids))

\* mutant of refCatalogMap: the map refers to the catalog's record itself,
\* whose totalQty is kept when it has one
RECURSIVE refCatalogMap_AliasKeep(_, _)
refCatalogMap_AliasKeep(st, ids) ==
  IF ids = <<>> THEN st
  ELSE LET ing == st.heap[Head(ids)]
       IN refCatalogMap_AliasKeep(
            [heap |-> [st.heap EXCEPT ![Head(ids)] =
                         withTotalQty(ing, IF "totalQty" \in DOMAIN ing
                                             THEN ing.totalQty ELSE 0)],
             map |-> objSet(st.map, toLowerCase(ing.name), Head(ids))],
            Tail(ids))

\* lines 154-157: { ...ing, totalQty: 0 } is a new object
RECURSIVE refCatalogMap(_, _)
refCatalogMap(st, ids) ==
  IF ids = <<>> THEN st
  ELSE LET ing == st.heap[Head(ids)]
       IN refCatalogMap(
            [heap |-> Append(st.heap, withTotalQty(ing, 0)),
             map |-> objSet(st.map, toLowerCase(ing.name), Len(st.heap) + 1)],
            Tail(ids))

\* lines 167-172: the assignment writes the object the map refers to
RECURSIVE refAddSmart(_, _)
refAddSmart(st, names) ==
  IF names = <<>> THEN st
  ELSE LET key == toLowerCase(Head(names))
       IN refAddSmart(
            IF objHas(st.map, key)
              THEN [st EXCEPT !.heap[objGet(st.map, key)] = withTotalQty(@, 1)]
              ELSE st,
            Tail(names))

\* lines 181-189: += writes the object the map refers to; the fallback
\* record is a new object
RECURSIVE refAddNames(_, _, _)
refAddNames(st, names, qty) ==
  IF names = <<>> THEN st
  ELSE LET ingName == Head(names)
           key == toLowerCase(ingName)
       IN refAddNames(
            IF objHas(st.map, key)
              THEN [st EXCEPT !.heap[objGet(st.map, key)] =
                                 withTotalQty(@, @.totalQty + qty)]
              ELSE [heap |-> Append(st.heap,
                                    [name |-> ingName, category |-> Other,
                                     store |-> EmptyStr, totalQty |-> qty]),
                    map |-> objSet(st.map, key, Len(st.heap) + 1)],
            Tail(names), qty)

\* lines 176-190: cart.forEach reads each entry; map and filter return new arrays
RECURSIVE refAddItems(_, _)
refAddItems(st, ids) ==
  IF ids = <<>> THEN st
  ELSE LET item == st.heap[Head(ids)]
       IN refAddItems(refAddNames(st,
                                  trimmedNames(insideOf(item))
                                    \o trimmedNames(onTopOf(item)),
                                  quantityOr1(item)),
                      Tail(ids))

\* lines 152-207: the value returned, and the cart and the catalog the caller
\* holds when the call has returned
summaryCall(c, ingredientsMaster) ==
  LET n == Len(flat(ingredientsMaster))
      st0 == [heap |-> objectsOf(c, ingredientsMaster), map |-> <<>>]
      st1 == refCatalogMap(st0, [k \in 1..n |-> k])
      st2 == IF hasRolls([k \in 1..Len(c) |-> st1.heap[n + k]])
               THEN refAddSmart(st1, smartIngredients)
               ELSE st1
      st3 == refAddItems(st2, [k \in 1..Len(c) |-> n + k])
      grouped == groupByCategory(<<>>, [k \in 1..Len(st3.map) |-> st3.heap[st3.map[k].val]])
  IN [result |-> [grouped |-> [k \in 1..Len(grouped) |->
                                 [key |-> grouped[k].key,
                                  val |-> sortByName(grouped[k].val)]],
                  sortedCats |-> sortStrings(objKeys(grouped))],
      cart |-> [k \in 1..Len(c) |-> st3.heap[n + k]],
      ingredients |-> [g \in 1..Len(ingredientsMaster) |->
                         [i \in 1..Len(ingredientsMaster[g]) |->
                            st3.heap[Len(flat(SubSeq(ingredientsMaster, 1, g - 1))) + i]]]]

\* line 156: ing.name.toLowerCase() raises a TypeError for a record without name
catalogMapRaises(ings) == \E k \in 1..Len(ings) : "name" \notin DOMAIN ings[k]

\* lines 152-207: the call raises, or returns { grouped, sortedCats }
summaryOutcome(c, ingredientsMaster) ==
  IF catalogMapRaises(flat(ingredientsMaster))
    THEN [threw |-> TRUE]
    ELSE [threw |-> FALSE, value |-> getCartIngredientsSummary(c, ingredientsMaster)]

(***************************************************************************)
(* getCartIngredients (app.js 88-106): the ingredients of the cart sidebar *)
(***************************************************************************)
\* lines 90-93: ingredientMap[ing.name.toLowerCase()] = ing
RECURSIVE lookupMap(_, _)
lookupMap(m, ings) ==
  IF ings = <<>> THEN m
  ELSE lookupMap(objSet(m, toLowerCase(Head(ings).name), Head(ings)), Tail(ings))

\* mutant of gatherNames: the names are neither trimmed nor filtered
RECURSIVE gatherNames_Raw(_)
gatherNames_Raw(c) ==
  IF c = <<>> THEN <<>>
  ELSE insideOf(Head(c)) \o onTopOf(Head(c)) \o gatherNames_Raw(Tail(c))

\* lines 95-101: allIngredients.push(...inside, ...onTop) for each item
RECURSIVE gatherNames(_)
gatherNames(c) ==
  IF c = <<>> THEN <<>>
  ELSE trimmedNames(insideOf(Head(c))) \o trimmedNames(onTopOf(Head(c)))
         \o gatherNames(Tail(c))

\* line 103: Array.from(new Set(...)): the first occurrences, in order
RECURSIVE uniqueStrings(_, _)
uniqueStrings(arr, seen) ==
  IF arr = <<>> THEN <<>>
  ELSE IF Head(arr) \in seen
         THEN uniqueStrings(Tail(arr), seen)
         ELSE <<Head(arr)>> \o uniqueStrings(Tail(arr), seen \cup {Head(arr)})

\* lines 88-106
getCartIngredients(c, ingredientsMaster) ==
  LET ingredientMap == lookupMap(<<>>, flat(ingredientsMaster))
      allIngredients == gatherNames(c)
      uniqueNames == uniqueStrings([k \in 1..Len(allIngredients) |->
                                      toLowerCase(allIngredients[k])], {})
  IN [k \in 1..Len(uniqueNames) |->
        IF objHas(ingredientMap, uniqueNames[k])
          THEN objGet(ingredientMap, uniqueNames[k])
          ELSE [name |-> uniqueNames[k]]]

\* line 706: Object.values(cartIngredientsData.grouped).flat()
cartIngredientsList(c, ingredientsMaster) ==
  flat(objValues(getCartIngredientsSummary(c, ingredientsMaster).grouped))

(***************************************************************************)
(* The "already have" marks of the shopping list (app.js 661-678, 711-713) *)
(***************************************************************************)
\* 'undefined'
UndefinedText == <<117, 110, 100, 101, 102, 105, 110, 101, 100>>
\* '-'
Hyphen == <<45>>

\* ${ingredient.field} in a template literal
templateField(ingredient, field) ==
  IF field \in DOMAIN ingredient THEN ingredient[field] ELSE UndefinedText

\* lines 662, 667, 676: `${ingredient.name}-${ingredient.store}-${ingredient.category}`
alreadyHaveKey(ingredient) ==
  templateField(ingredient, "name") \o Hyphen
    \o templateField(ingredient, "store") \o Hyphen
    \o templateField(ingredient, "category")

\* line 663: the updater of markAsAlreadyHave
markAsAlreadyHave(prev, ingredient) == prev \cup {alreadyHaveKey(ingredient)}

\* lines 668-672: the updater of unmarkAsAlreadyHave
unmarkAsAlreadyHave(prev, ingredient) == prev \ {alreadyHaveKey(ingredient)}

\* lines 675-678
isAlreadyHave(have, ingredient) == alreadyHaveKey(ingredient) \in have

\* mutant of needToBuyIngredients: the list is not filtered
needToBuyIngredients_All(list, have) == list

\* line 712
needToBuyIngredients(list, have) ==
  LET toBuy(ing) == ~isAlreadyHave(have, ing)
  IN SelectSeq(list, toBuy)

\* line 713
alreadyHaveList(list, have) ==
  LET marked(ing) == isAlreadyHave(have, ing)
  IN SelectSeq(list, marked)

(***************************************************************************)
(* Reference data: the ingredient catalogs the session may have loaded     *)
(***************************************************************************)
\* 'Fish'
Fish == <<70, 105, 115, 104>>
\* 'Grain'
Grain == <<71, 114, 97, 105, 110>>
\* 'Sauce'
Sauce == <<83, 97, 117, 99, 101>>
\* 'Condiment'
Condiment == <<67, 111, 110, 100, 105, 109, 101, 110, 116>>
\* 'Costco'
Costco == <<67, 111, 115, 116, 99, 111>>
\* 'SOY SAUCE'
SoySauceUpper == <<83, 79, 89, 32, 83, 65, 85, 67, 69>>

Ingredient(n, c, s) == [name |-> n, category |-> c, store |-> s]

\* the catalog of the specification's example: Tuna(Fish), Rice(Grain),
\* Spicy Mayo(Sauce), Soy Sauce(Condiment), Wasabi(Condiment)
ExampleCatalog ==
  << <<Ingredient(Tuna, Fish, Costco)>>,
     <<Ingredient(Rice, Grain, Costco)>>,
     <<Ingredient(SpicyMayo, Sauce, EmptyStr)>>,
     <<Ingredient(SoySauce, Condiment, Costco),
       Ingredient(Wasabi, Condiment, EmptyStr)>> >>

\* a catalog without Rice and Wasabi, with soy sauce in capitals and without
\* a category
PartialCatalog ==
  << <<Ingredient(Salmon, Fish, Costco), Ingredient(Tuna, Fish, Costco)>>,
     <<Ingredient(SoySauceUpper, EmptyStr, EmptyStr)>> >>

\* useState({}): the catalog before the data has loaded
EmptyCatalog == <<>>

\* 'fish'
FishLower == <<102, 105, 115, 104>>

\* a catalog with a category written in lower case
LowerCaseCatalog ==
  << <<Ingredient(Tuna, FishLower, Costco)>>,
     <<Ingredient(Wasabi, Condiment, EmptyStr)>> >>

Catalogs == {ExampleCatalog, PartialCatalog, EmptyCatalog, LowerCaseCatalog}

(***************************************************************************)
(* State machine.  cart, ingredients and the other variables but last,     *)
(* url and pending are the useState cells of App; last is a history        *)
(* variable holding the latest operation, its arguments and the state it   *)
(* was applied to.  An operation is one handler or one continuation of an  *)
(* async handler.                                                          *)
(***************************************************************************)
NoOperation == [op |-> "none", item |-> SpicyTunaRoll, qty |-> 0, prev |-> <<>>]

\* null, for the cells that hold null or a string
Null == "null"

\* selectedEventMenu is null (<<>>) or an event menu object (<<eventMenu>>)
NoEventMenu == <<>>

\* lines 219-222, 437: no event, the 'menu' page; the location has no event
\* id and no call is in flight
InitEvents ==
  /\ selectedEventMenu = NoEventMenu
  /\ currentEventId = Null
  /\ activeNav = "menu"
  /\ url = Null
  /\ pending = EmptyBag

\* the session's catalog is one of Catalogs, its data loaded; the cart starts
\* empty
Init ==
  /\ cart = <<>>
  /\ ingredients \in Catalogs
  /\ last = NoOperation
  /\ alreadyHaveIngredients = {}
  /\ InitEvents
  /\ menu = <<>>
  /\ runbook = <<>>
  /\ loading = FALSE
  /\ error = Null

\* the cart operations never read the catalog: the histories of the cart
\* are explored under the example catalog
InitCart == Init /\ ingredients = ExampleCatalog

AddToCartStep(item, record) ==
  /\ cart' = addToCart(cart, item)
  /\ last' = IF record
               THEN [op |-> "addToCart", item |-> item, qty |-> 0, prev |-> cart]
               ELSE last
  /\ UNCHANGED <<ingredients, alreadyHaveIngredients, eventVars, dataVars>>

\* mutant of RemoveFromCartStep: removing an item forgets the marks
RemoveFromCartStep_ForgetsMarks(item, record) ==
  /\ cart' = removeFromCart(cart, item)
  /\ last' = IF record
               THEN [op |-> "removeFromCart", item |-> item, qty |-> 0, prev |-> cart]
               ELSE last
  /\ alreadyHaveIngredients' = {}
  /\ UNCHANGED <<ingredients, eventVars, dataVars>>

RemoveFromCartStep(item, record) ==
  /\ cart' = removeFromCart(cart, item)
  /\ last' = IF record
               THEN [op |-> "removeFromCart", item |-> item, qty |-> 0, prev |-> cart]
               ELSE last
  /\ UNCHANGED <<ingredients, alreadyHaveIngredients, eventVars, dataVars>>

SetCartQuantityStep(item, qty, record) ==
  /\ cart' = setCartQuantity(cart, item, qty)
  /\ last' = IF record
               THEN [op |-> "setCartQuantity", item |-> item, qty |-> qty, prev |-> cart]
               ELSE last
  /\ UNCHANGED <<ingredients, alreadyHaveIngredients, eventVars, dataVars>>

DoAddToCart == \E item \in MenuItems : AddToCartStep(item, TRUE)

DoRemoveFromCart == \E item \in MenuItems : RemoveFromCartStep(item, TRUE)

DoSetCartQuantity ==
  \E item \in MenuItems, qty \in QtyInputs : SetCartQuantityStep(item, qty, TRUE)

Next == DoAddToCart \/ DoRemoveFromCart \/ DoSetCartQuantity

\* the cart with its history, for the properties of the cart operations
Spec == InitCart /\ [][Next]_vars

AddItem == \E item \in MenuItems : AddToCartStep(item, FALSE)

RemoveItem == \E item \in MenuItems : RemoveFromCartStep(item, FALSE)

SetQuantity ==
  \E item \in MenuItems, qty \in QtyInputs : SetCartQuantityStep(item, qty, FALSE)

NextSummary == AddItem \/ RemoveItem \/ SetQuantity

\* every reachable cart under every catalog, without the history: the
\* shopping list is a function of cart and ingredients alone
SummarySpec == Init /\ [][NextSummary]_vars

(***************************************************************************)
(* Data loaded from the server: the ingredient catalog (app.js 282-312)    *)
(* and the menu_data of an event menu (app.js 232-245, 1366-1403), whose   *)
(* entries are whatever was stored with the event                          *)
(***************************************************************************)
\* a catalog with a record that has no name
NamelessCatalog ==
  << <<Ingredient(Tuna, Fish, Costco)>>,
     <<[category |-> Condiment, store |-> EmptyStr]>> >>

LoadedCatalogs == Catalogs \cup {NamelessCatalog}

\* entries of stored event menus: a full entry, an entry without quantity, an
\* entry with neither quantity nor ingredient lists, an entry without quantity
\* and on-top list, an entry of quantity 0
EventEntries ==
  {withQuantity(SpicyTunaRoll, 2),
   SpicyTunaRoll,
   [name |-> SpecialTunaRoll.name, category |-> SpecialTunaRoll.category],
   [name |-> SalmonNigiri.name, category |-> SalmonNigiri.category,
    ingredients_inside |-> SalmonNigiri.ingredients_inside],
   withQuantity(SalmonNigiri, 0)}

MaxMenuEntries == 2

\* eventMenu.menu_data || []
EventMenus ==
  UNION {[1..n -> EventEntries] : n \in 0..MaxMenuEntries}

(***************************************************************************)
(* The data-loading effect (app.js 282-312)                                *)
(***************************************************************************)
\* line 309
LoadFailureMessage == "Failed to load menu data from API."

\* lines 288-301: the menu array grouped by category
RECURSIVE menuByCategory(_, _)
menuByCategory(m, menuData) ==
  IF menuData = <<>> THEN m
  ELSE LET item == Head(menuData)
       IN menuByCategory(
            IF objHas(m, item.category)
              THEN objSet(m, item.category, Append(objGet(m, item.category), item))
              ELSE objSet(m, item.category, <<item>>),
            Tail(menuData))

\* the outcome of one fetch: the promise rejects, or resolves with a
\* response of status ok or not whose body is not JSON, or is JSON (an array
\* or not)
Rejected == [kind |-> "rejected"]

NotJson(ok) == [kind |-> "text", ok |-> ok]

Json(ok, isArray, data) ==
  [kind |-> "json", ok |-> ok, isArray |-> isArray, data |-> data]

\* lines 284-311: the three fetches have settled.  A rejected fetch or a
\* rejected res.json() runs the catch; otherwise the bodies are installed,
\* whatever the status of their responses
FetchSettlesStep(responses, record) ==
  /\ loading
  /\ IF \E k \in 1..3 : responses[k].kind \in {"rejected", "text"}
       THEN /\ error' = LoadFailureMessage
            /\ UNCHANGED <<menu, ingredients, runbook>>
       ELSE /\ menu' = IF responses[1].isArray
                         THEN menuByCategory(<<>>, responses[1].data)
                         ELSE <<>>
            /\ ingredients' = responses[2].data
            /\ runbook' = responses[3].data
            /\ UNCHANGED error
  /\ loading' = FALSE
  /\ last' = IF record THEN [op |-> "fetchSettles", responses |-> responses] ELSE last
  /\ UNCHANGED <<cart, alreadyHaveIngredients, eventVars>>

(***************************************************************************)
(* Event menus (app.js 224-271, 477-493, 1366-1422).  A load is a call of  *)
(* getEventMenu that has not settled: it was started for the location      *)
(* ("url") or by the lookup form ("lookup").                               *)
(***************************************************************************)
\* ids of the form [a-zA-Z0-9]+ (line 227)
EventIds == {"a1b2", "c3d4"}

MaxPending == 2

UrlLoad(id) == [source |-> "url", id |-> id]

LookupLoad(id) == [source |-> "lookup", id |-> id]

\* the cells an event operation may write, and the location
eventSnapshot ==
  [cart |-> cart, selectedEventMenu |-> selectedEventMenu,
   currentEventId |-> currentEventId, activeNav |-> activeNav, url |-> url]

\* mutant of loadedCart: the event's entries are added to the cart
loadedCart_Merge(prev, eventMenu) ==
  prev \o (IF "menu_data" \in DOMAIN eventMenu THEN eventMenu.menu_data ELSE <<>>)

\* lines 237, 1373, 1394: setCart(eventMenu.menu_data || [])
loadedCart(prev, eventMenu) ==
  IF "menu_data" \in DOMAIN eventMenu THEN eventMenu.menu_data ELSE <<>>

\* mutant of PopStateStep: leaving the event keeps selectedEventMenu
PopStateStep_KeepsMenu(newUrl, record) ==
  /\ url' = newUrl
  /\ IF newUrl # Null /\ newUrl # currentEventId
       THEN /\ BagCardinality(pending) < MaxPending
            /\ pending' = pending (+) SetToBag({UrlLoad(newUrl)})
            /\ UNCHANGED <<cart, selectedEventMenu, currentEventId>>
       ELSE IF newUrl = Null /\ currentEventId # Null
              THEN /\ currentEventId' = Null
                   /\ cart' = <<>>
                   /\ UNCHANGED <<selectedEventMenu, pending>>
              ELSE UNCHANGED <<cart, selectedEventMenu, currentEventId, pending>>
  /\ last' = IF record
               THEN [op |-> "popstate", newUrl |-> newUrl, prev |-> eventSnapshot]
               ELSE last
  /\ UNCHANGED <<activeNav, ingredients, alreadyHaveIngredients, dataVars>>

\* lines 256-271: handlePopState, the browser having moved to newUrl; the
\* call of loadEventMenuFromUrl runs up to its await (lines 232-235)
PopStateStep(newUrl, record) ==
  /\ url' = newUrl
  /\ IF newUrl # Null /\ newUrl # currentEventId
       THEN /\ BagCardinality(pending) < MaxPending
            /\ pending' = pending (+) SetToBag({UrlLoad(newUrl)})
            /\ UNCHANGED <<cart, selectedEventMenu, currentEventId>>
       ELSE IF newUrl = Null /\ currentEventId # Null
              THEN /\ currentEventId' = Null
                   /\ selectedEventMenu' = NoEventMenu
                   /\ cart' = <<>>
                   /\ UNCHANGED pending
              ELSE UNCHANGED <<cart, selectedEventMenu, currentEventId, pending>>
  /\ last' = IF record
               THEN [op |-> "popstate", newUrl |-> newUrl, prev |-> eventSnapshot]
               ELSE last
  /\ UNCHANGED <<activeNav, ingredients, alreadyHaveIngredients, dataVars>>

\* lines 1366-1371, 1387-1392: Enter or 'Load Event' on the my_events page,
\* up to the await
LookupStep(eventId, record) ==
  /\ activeNav = "my_events"
  /\ BagCardinality(pending) < MaxPending
  /\ pending' = pending (+) SetToBag({LookupLoad(eventId)})
  /\ last' = IF record
               THEN [op |-> "lookup", eventId |-> eventId, prev |-> eventSnapshot]
               ELSE last
  /\ UNCHANGED <<cart, ingredients, alreadyHaveIngredients, selectedEventMenu,
                 currentEventId, activeNav, url, dataVars>>

\* lines 236-240, 1372-1377, 1393-1398: getEventMenu has returned eventMenu;
\* the lookup form also pushes /event/<id>
LoadSucceedsStep(load, eventMenu, record) ==
  /\ BagIn(load, pending)
  /\ pending' = pending (-) SetToBag({load})
  /\ selectedEventMenu' = <<eventMenu>>
  /\ cart' = loadedCart(cart, eventMenu)
  /\ activeNav' = "menu"
  /\ currentEventId' = load.id
  /\ url' = IF load.source = "lookup" THEN load.id ELSE url
  /\ last' = IF record
               THEN [op |-> "loadSucceeds", load |-> load, eventMenu |-> eventMenu,
                     prev |-> eventSnapshot]
               ELSE last
  /\ UNCHANGED <<ingredients, alreadyHaveIngredients, dataVars>>

\* lines 241-244, 1378-1380, 1399-1401: getEventMenu has thrown
LoadFailsStep(load, record) ==
  /\ BagIn(load, pending)
  /\ pending' = pending (-) SetToBag({load})
  /\ last' = IF record
               THEN [op |-> "loadFails", load |-> load, prev |-> eventSnapshot]
               ELSE last
  /\ UNCHANGED <<cart, ingredients, alreadyHaveIngredients, selectedEventMenu,
                 currentEventId, activeNav, url, dataVars>>

\* lines 1412-1422: the close button of the event panel on the my_events page
CloseEventStep(record) ==
  /\ activeNav = "my_events"
  /\ selectedEventMenu # NoEventMenu
  /\ selectedEventMenu' = NoEventMenu
  /\ cart' = <<>>
  /\ currentEventId' = Null
  /\ url' = Null
  /\ last' = IF record THEN [op |-> "close", prev |-> eventSnapshot] ELSE last
  /\ UNCHANGED <<ingredients, alreadyHaveIngredients, activeNav, pending, dataVars>>

\* lines 402-405: handleNavClick
NavClickStep(key, record) ==
  /\ activeNav' = key
  /\ last' = IF record THEN [op |-> "nav", key |-> key, prev |-> eventSnapshot] ELSE last
  /\ UNCHANGED <<cart, ingredients, alreadyHaveIngredients, selectedEventMenu,
                 currentEventId, url, pending, dataVars>>

(***************************************************************************)
(* The carts that event menus install, under the catalog the server        *)
(* returned                                                                *)
(***************************************************************************)
\* the menu as the API returns it
ExampleMenuData == <<SpicyTunaRoll, SpecialTunaRoll, SalmonNigiri>>

\* the state after construction: the cells at their useState values
InitLoaded ==
  /\ cart = <<>>
  /\ ingredients = EmptyCatalog
  /\ last = NoOperation
  /\ alreadyHaveIngredients = {}
  /\ InitEvents
  /\ menu = <<>>
  /\ runbook = <<>>
  /\ loading = TRUE
  /\ error = Null

\* line 303: setIngredients(ingredientsData || {}), once after mounting
LoadIngredients ==
  \E ingredientsData \in LoadedCatalogs :
    FetchSettlesStep(<<Json(TRUE, TRUE, ExampleMenuData),
                       Json(TRUE, FALSE, ingredientsData),
                       Json(TRUE, TRUE, <<>>)>>, FALSE)

\* the browser moves back or forward to the page of the event
OpenEvent == PopStateStep("a1b2", FALSE)

\* lines 237, 1373, 1394: setCart(eventMenu.menu_data || [])
LoadEventMenu ==
  \E load \in BagToSet(pending), menu_data \in EventMenus :
    LoadSucceedsStep(load, [unique_id |-> load.id, menu_data |-> menu_data], FALSE)

\* lines 265, 1418: setCart([])
LeaveEvent == PopStateStep(Null, FALSE)

NextLoaded == LoadIngredients \/ OpenEvent \/ LoadEventMenu \/ LeaveEvent

LoadedSpec == InitLoaded /\ [][NextLoaded]_vars

(***************************************************************************)
(* The event menus under loads, lookups, closes and back/forward           *)
(***************************************************************************)
\* what GET /event-menus/<id> returns: an event with a stored cart, an event
\* without menu_data
ServerEvent(id) ==
  IF id = "a1b2"
    THEN [unique_id |-> id, menu_data |-> <<withQuantity(SpicyTunaRoll, 2)>>]
    ELSE [unique_id |-> id]

\* lines 210-222, 248-253: the cells at their useState values at any
\* location, the mount effect having started the load of the location's event
InitEvent ==
  /\ cart = <<>>
  /\ ingredients = ExampleCatalog
  /\ last = NoOperation
  /\ alreadyHaveIngredients = {}
  /\ selectedEventMenu = NoEventMenu
  /\ currentEventId = Null
  /\ activeNav = "menu"
  /\ url \in EventIds \cup {Null}
  /\ pending = IF url # Null THEN SetToBag({UrlLoad(url)}) ELSE EmptyBag
  /\ menu = <<>>
  /\ runbook = <<>>
  /\ loading = FALSE
  /\ error = Null

PopState == \E newUrl \in EventIds \cup {Null} : PopStateStep(newUrl, TRUE)

Lookup == \E eventId \in EventIds : LookupStep(eventId, TRUE)

LoadSucceeds ==
  \E load \in BagToSet(pending) : LoadSucceedsStep(load, ServerEvent(load.id), TRUE)

LoadFails == \E load \in BagToSet(pending) : LoadFailsStep(load, TRUE)

CloseEvent == CloseEventStep(TRUE)

NavClick == \E key \in {"menu", "my_events"} : NavClickStep(key, TRUE)

NextEvent == PopState \/ Lookup \/ LoadSucceeds \/ LoadFails \/ CloseEvent \/ NavClick

EventSpec == InitEvent /\ [][NextEvent]_vars

(***************************************************************************)
(* The shopping list page: the cart, the marks and one event load          *)
(***************************************************************************)
\* 'Toro'
Toro == <<84, 111, 114, 111>>
\* 'Tuna-Belly'
TunaBelly == <<84, 117, 110, 97, 45, 66, 101, 108, 108, 121>>
\* 'Belly-Costco'
BellyCostco == <<66, 101, 108, 108, 121, 45, 67, 111, 115, 116, 99, 111>>

\* a non-roll item made of 'Tuna-Belly'
ToroNigiri ==
  [name |-> Toro, category |-> Nigiri,
   ingredients_inside |-> <<TunaBelly>>,
   ingredients_on_top |-> <<>>]

ShoppingItems == {SpicyTunaRoll, ToroNigiri}

\* a catalog whose names and stores are written with hyphens
HyphenCatalog ==
  << <<Ingredient(Tuna, Fish, BellyCostco), Ingredient(TunaBelly, Fish, Costco)>>,
     <<Ingredient(Rice, Grain, Costco)>> >>

\* the rows of the shopping list page
shoppingList == cartIngredientsList(cart, ingredients)

\* lines 1628-1641: the button 'Already have' of a row of the first table
MarkAsAlreadyHaveStep(ing, record) ==
  /\ activeNav = "shopping_list"
  /\ \E k \in 1..Len(needToBuyIngredients(shoppingList, alreadyHaveIngredients)) :
       needToBuyIngredients(shoppingList, alreadyHaveIngredients)[k] = ing
  /\ alreadyHaveIngredients' = markAsAlreadyHave(alreadyHaveIngredients, ing)
  /\ last' = IF record
               THEN [op |-> "markAsAlreadyHave", ingredient |-> ing,
                     prev |-> cart, have |-> alreadyHaveIngredients]
               ELSE last
  /\ UNCHANGED <<cart, ingredients, eventVars, dataVars>>

\* lines 1679-1692: the button of a row of the second table
UnmarkAsAlreadyHaveStep(ing, record) ==
  /\ activeNav = "shopping_list"
  /\ \E k \in 1..Len(alreadyHaveList(shoppingList, alreadyHaveIngredients)) :
       alreadyHaveList(shoppingList, alreadyHaveIngredients)[k] = ing
  /\ alreadyHaveIngredients' = unmarkAsAlreadyHave(alreadyHaveIngredients, ing)
  /\ last' = IF record
               THEN [op |-> "unmarkAsAlreadyHave", ingredient |-> ing,
                     prev |-> cart, have |-> alreadyHaveIngredients]
               ELSE last
  /\ UNCHANGED <<cart, ingredients, eventVars, dataVars>>

\* the page was opened at /event/a1b2: the load of the mount effect is in
\* flight
InitShopping ==
  /\ cart = <<>>
  /\ ingredients = HyphenCatalog
  /\ last = NoOperation
  /\ alreadyHaveIngredients = {}
  /\ selectedEventMenu = NoEventMenu
  /\ currentEventId = Null
  /\ activeNav = "menu"
  /\ url = "a1b2"
  /\ pending = SetToBag({UrlLoad("a1b2")})
  /\ menu = <<>>
  /\ runbook = <<>>
  /\ loading = FALSE
  /\ error = Null

\* the quantities typed on the shopping list page
ShoppingQuantities == {0, 3}

\* the items are added when they are not in the cart; their quantities are
\* typed
ShopAddToCart ==
  \E item \in ShoppingItems :
    /\ \A k \in 1..Len(cart) : ~sameKey(cart[k], item)
    /\ AddToCartStep(item, TRUE)

ShopRemoveFromCart == \E item \in ShoppingItems : RemoveFromCartStep(item, TRUE)

ShopSetCartQuantity ==
  \E item \in ShoppingItems, qty \in ShoppingQuantities :
    SetCartQuantityStep(item, qty, TRUE)

ShopLoadSucceeds ==
  \E load \in BagToSet(pending) : LoadSucceedsStep(load, ServerEvent(load.id), TRUE)

ShopNavClick == \E key \in {"menu", "shopping_list"} : NavClickStep(key, TRUE)

MarkAsAlreadyHave ==
  \E k \in 1..Len(shoppingList) : MarkAsAlreadyHaveStep(shoppingList[k], TRUE)

UnmarkAsAlreadyHave ==
  \E k \in 1..Len(shoppingList) : UnmarkAsAlreadyHaveStep(shoppingList[k], TRUE)

NextShopping ==
  \/ ShopAddToCart
  \/ ShopRemoveFromCart
  \/ ShopSetCartQuantity
  \/ ShopLoadSucceeds
  \/ ShopNavClick
  \/ MarkAsAlreadyHave
  \/ UnmarkAsAlreadyHave

ShoppingSpec == InitShopping /\ [][NextShopping]_vars

(***************************************************************************)
(* The order of the runbook table (app.js 1264-1317)                       *)
(***************************************************************************)
\* String.prototype.toUpperCase on the letters a-z
toUpperCase(s) ==
  [k \in 1..Len(s) |-> IF s[k] \in 97..122 THEN s[k] - 32 ELSE s[k]]

\* String.prototype.includes
includes(s, sub) ==
  \E p \in 1..(Len(s) - Len(sub) + 1) : SubSeq(s, p, p + Len(sub) - 1) = sub

\* \d+ at position p: the longest run of digits that starts there
RECURSIVE digitRun(_, _)
digitRun(s, p) ==
  IF p <= Len(s) /\ s[p] \in 48..57
    THEN <<s[p]>> \o digitRun(s, p + 1)
    ELSE <<>>

\* str.match(/T-(\d+)<suffix>/)[1]: the digits captured by the leftmost
\* match, <<>> when match returns null.  The suffix is empty or one letter,
\* which can only follow the whole run of digits
matchTMinus(s, suffix) ==
  LET matchesAt(p) ==
        /\ p + 2 <= Len(s)
        /\ s[p] = 84
        /\ s[p + 1] = 45
        /\ digitRun(s, p + 2) # <<>>
        /\ LET after == p + 2 + Len(digitRun(s, p + 2))
           IN SubSeq(s, after, after + Len(suffix) - 1) = suffix
      places == {p \in 1..Len(s) : matchesAt(p)}
  IN IF places = {} THEN <<>>
     ELSE digitRun(s, (CHOOSE p \in places : \A q \in places : p <= q) + 2)

\* parseInt on a string of decimal digits
RECURSIVE parseInt(_)
parseInt(digits) ==
  IF digits = <<>> THEN 0
  ELSE 10 * parseInt(SubSeq(digits, 1, Len(digits) - 1)) + (digits[Len(digits)] - 48)

\* 'DAY', 'H', 'M', 'T-'
DayWord == <<68, 65, 89>>
HLetter == <<72>>
MLetter == <<77>>
TMinus == <<84, 45>>

\* lines 1265-1302.  includes('DAY') || includes('DAYS') is includes('DAY'),
\* and includes('H') || includes('HOUR') || includes('HOURS') is includes('H')
getTimelineOrder(timeline) ==
  LET timelineStr == toUpperCase(timeline)
  IN IF /\ includes(timelineStr, TMinus)
        /\ includes(timelineStr, DayWord)
        /\ matchTMinus(timelineStr, <<>>) # <<>>
       THEN 100 - parseInt(matchTMinus(timelineStr, <<>>))
     ELSE IF /\ includes(timelineStr, TMinus)
             /\ includes(timelineStr, HLetter)
             /\ matchTMinus(timelineStr, HLetter) # <<>>
       THEN 200 - parseInt(matchTMinus(timelineStr, HLetter))
     ELSE IF /\ includes(timelineStr, TMinus)
             /\ includes(timelineStr, MLetter)
             /\ matchTMinus(timelineStr, MLetter) # <<>>
       THEN 300 - parseInt(matchTMinus(timelineStr, MLetter))
     ELSE IF timelineStr = <<84, 45, 48>>
       THEN 300
     ELSE 999

\* lines 1309-1317: the comparator of the sort
compareRunbook(a, b) ==
  IF "sort_order" \in DOMAIN a /\ "sort_order" \in DOMAIN b
    THEN a.sort_order - b.sort_order
    ELSE getTimelineOrder(a.timeline) - getTimelineOrder(b.timeline)

\* Array.prototype.sort is stable: x goes after the elements it does not
\* precede
RECURSIVE insertRunbook(_, _)
insertRunbook(sorted, x) ==
  IF sorted = <<>> THEN <<x>>
  ELSE IF compareRunbook(sorted[Len(sorted)], x) <= 0
         THEN Append(sorted, x)
         ELSE Append(insertRunbook(SubSeq(sorted, 1, Len(sorted) - 1), x),
                     sorted[Len(sorted)])

RECURSIVE sortRunbook(_)
sortRunbook(arr) ==
  IF arr = <<>> THEN <<>>
  ELSE insertRunbook(sortRunbook(SubSeq(arr, 1, Len(arr) - 1)), arr[Len(arr)])

\* lines 1304-1317: the rows of the table
runbookRows(steps) ==
  LET beginner(item) == item.has_beginner
  IN sortRunbook(SelectSeq(steps, beginner))

(***************************************************************************)
(* Runbooks of two steps.  The numbers of the timelines are the first      *)
(* SmallNumbers positive integers and the integers within AroundHundred    *)
(* of 100.                                                                 *)
(***************************************************************************)
SmallNumbers == 3
AroundHundred == 2

TimelineNumbers ==
  (1..SmallNumbers) \cup ((100 - AroundHundred)..(100 + AroundHundred))

\* the decimal digits of n
RECURSIVE decimal(_)
decimal(n) ==
  IF n < 10 THEN <<48 + n>> ELSE decimal(n \div 10) \o <<48 + (n % 10)>>

\* 'T-1 day', 'T-n days'; 'T-nH'; 'T-nM'
DayTimeline(n) ==
  TMinus \o decimal(n)
    \o (IF n = 1 THEN <<32, 100, 97, 121>> ELSE <<32, 100, 97, 121, 115>>)

HourTimeline(n) == TMinus \o decimal(n) \o <<72>>

MinuteTimeline(n) == TMinus \o decimal(n) \o <<77>>

Timelines ==
  {DayTimeline(n) : n \in TimelineNumbers}
    \cup {HourTimeline(n) : n \in TimelineNumbers}
    \cup {MinuteTimeline(n) : n \in TimelineNumbers}
    \cup {<<84, 45, 48>>}

\* steps without sort_order, and steps with sort_order 1
RunbookItems ==
  {[timeline |-> tl, has_beginner |-> TRUE] : tl \in Timelines}
    \cup {[timeline |-> tl, has_beginner |-> TRUE, sort_order |-> 1] : tl \in Timelines}

LoadRunbook ==
  \E a \in RunbookItems, b \in RunbookItems :
    FetchSettlesStep(<<Json(TRUE, TRUE, ExampleMenuData),
                       Json(TRUE, FALSE, ExampleCatalog),
                       Json(TRUE, TRUE, <<a, b>>)>>, FALSE)

RunbookSpec == InitLoaded /\ [][LoadRunbook]_vars

(***************************************************************************)
(* The outcomes of the data-loading effect                                 *)
(***************************************************************************)
\* 'Internal Server Error'
ErrorText ==
  <<73, 110, 116, 101, 114, 110, 97, 108, 32, 83, 101, 114, 118, 101, 114, 32,
    69, 114, 114, 111, 114>>

\* the JSON body { error: 'Internal Server Error' } of an error response, as
\* the sequence of its values
ErrorBody == <<ErrorText>>

\* 'T-0'
TZero == <<84, 45, 48>>

\* a runbook of one step
ExampleRunbook == <<[timeline |-> TZero, has_beginner |-> TRUE]>>

MenuResponses ==
  {Rejected, NotJson(FALSE), Json(TRUE, TRUE, ExampleMenuData),
   Json(FALSE, FALSE, ErrorBody)}

IngredientsResponses ==
  {Rejected, NotJson(FALSE), Json(FALSE, FALSE, ErrorBody)}
    \cup {Json(TRUE, FALSE, catalog) : catalog \in Catalogs}

RunbookResponses ==
  {Rejected, NotJson(FALSE), Json(TRUE, TRUE, ExampleRunbook),
   Json(FALSE, FALSE, ErrorBody)}

FetchSettles ==
  \E r1 \in MenuResponses, r2 \in IngredientsResponses, r3 \in RunbookResponses :
    FetchSettlesStep(<<r1, r2, r3>>, TRUE)

\* the effect runs once, after the first render
DataSpec == InitLoaded /\ [][FetchSettles]_vars

(***************************************************************************)
(* Vocabulary of the properties, stated on the cart itself and not through *)
(* the operators above                                                     *)
(***************************************************************************)
\* the positions of the entries of c with the (name, category) of item
matching(c, item) ==
  {k \in 1..Len(c) : c[k].name = item.name /\ c[k].category = item.category}

\* c without its k-th entry
without(c, k) == SubSeq(c, 1, k - 1) \o SubSeq(c, k + 1, Len(c))

\* the entry the cart holds for item at quantity q
entryOf(item, q) ==
  [name |-> item.name, category |-> item.category,
   ingredients_inside |-> item.ingredients_inside,
   ingredients_on_top |-> item.ingredients_on_top,
   quantity |-> q]

(***************************************************************************)
(* C1: in every cart reachable from the empty cart by addToCart,           *)
(* removeFromCart and setCartQuantity, no two entries have the same        *)
(* (name, category) pair.                                                  *)
(***************************************************************************)
C1_UniqueKeys ==
  \A i, j \in 1..Len(cart) :
    i # j => ~(cart[i].name = cart[j].name /\ cart[i].category = cart[j].category)

\* addToCart has just been called for an item that was already in a cart
\* holding two entries of the same name
C1_Witness ==
  /\ last.op = "addToCart"
  /\ matching(last.prev, last.item) # {}
  /\ \E i, j \in 1..Len(cart) : i # j /\ cart[i].name = cart[j].name

(***************************************************************************)
(* C2: in every reachable cart, every entry's quantity is an integer q     *)
(* with 1 <= q <= 5, whatever integer setCartQuantity was called with.     *)
(***************************************************************************)
C2_QuantityInRange ==
  \A k \in 1..Len(cart) : cart[k].quantity \in 1..5

\* setCartQuantity has just been called with more than 5 for an entry of the cart
C2_Witness ==
  /\ last.op = "setCartQuantity"
  /\ last.qty > 5
  /\ matching(last.prev, last.item) # {}
  /\ \E k \in matching(cart, last.item) : cart[k].quantity = 5

(***************************************************************************)
(* C3: addToCart(item) on a cart holding an entry with the item's          *)
(* (name, category) sets that entry's quantity to min(old + 1, 5) and      *)
(* changes nothing else; otherwise it appends a new entry for the item     *)
(* with quantity 1 and leaves the existing entries as they were.           *)
(***************************************************************************)
C3_AddToCart ==
  last.op = "addToCart" =>
    LET prev == last.prev
        found == matching(prev, last.item)
    IN IF found # {}
         THEN /\ Cardinality(found) = 1
              /\ Len(cart) = Len(prev)
              /\ \A k \in 1..Len(prev) :
                   IF k \in found
                     THEN cart[k] = entryOf(prev[k],
                                            IF prev[k].quantity + 1 < 5
                                              THEN prev[k].quantity + 1 ELSE 5)
                     ELSE cart[k] = prev[k]
         ELSE /\ Len(cart) = Len(prev) + 1
              /\ \A k \in 1..Len(prev) : cart[k] = prev[k]
              /\ cart[Len(cart)] = entryOf(last.item, 1)

\* addToCart on an entry already at 5 (nothing changes), in a cart that also
\* holds the item of the same name in the other category
C3_Witness ==
  /\ last.op = "addToCart"
  /\ \E k \in matching(last.prev, last.item) : last.prev[k].quantity = 5
  /\ cart = last.prev
  /\ \E k \in 1..Len(cart) :
       cart[k].name = last.item.name /\ cart[k].category # last.item.category

(***************************************************************************)
(* C4: removeFromCart(item) deletes the entry whose (name, category)       *)
(* matches and leaves every other entry, its quantity and the relative     *)
(* order unchanged; when no entry matches the cart is unchanged.           *)
(***************************************************************************)
C4_RemoveFromCart ==
  last.op = "removeFromCart" =>
    LET prev == last.prev
        found == matching(prev, last.item)
    IN IF found = {}
         THEN cart = prev
         ELSE \E k \in found : found = {k} /\ cart = without(prev, k)

\* the middle one of three entries has just been removed
C4_Witness ==
  /\ last.op = "removeFromCart"
  /\ Len(last.prev) = 3
  /\ matching(last.prev, last.item) = {2}
  /\ cart = <<last.prev[1], last.prev[3]>>

(***************************************************************************)
(* C5: for every cart, item and integer qty < 1, setCartQuantity(item,     *)
(* qty) produces exactly the cart removeFromCart(item) produces.           *)
(***************************************************************************)
C5_SetBelowOneIsRemove ==
  (last.op = "setCartQuantity" /\ last.qty < 1) =>
    /\ cart = removeFromCart(last.prev, last.item)
    /\ matching(cart, last.item) = {}

\* setCartQuantity with a negative quantity has just removed an entry
C5_Witness ==
  /\ last.op = "setCartQuantity"
  /\ last.qty < 0
  /\ matching(last.prev, last.item) # {}
  /\ Len(cart) = Len(last.prev) - 1

(***************************************************************************)
(* C6: for every integer qty >= 1, setCartQuantity(item, qty) sets the     *)
(* quantity of the entry matching (name, category) to qty clamped to       *)
(* [1, 5] and leaves every other entry unchanged.                          *)
(***************************************************************************)
C6_SetCartQuantity ==
  (last.op = "setCartQuantity" /\ last.qty >= 1) =>
    LET prev == last.prev
    IN /\ Len(cart) = Len(prev)
       /\ \A k \in 1..Len(prev) :
            IF k \in matching(prev, last.item)
              THEN cart[k] = entryOf(prev[k], IF last.qty > 5 THEN 5 ELSE last.qty)
              ELSE cart[k] = prev[k]

\* a quantity strictly inside the range has just replaced a different one,
\* in a cart with other entries
C6_Witness ==
  /\ last.op = "setCartQuantity"
  /\ last.qty \in 2..4
  /\ Len(cart) > 1
  /\ \E k \in matching(last.prev, last.item) :
       last.prev[k].quantity # last.qty /\ cart[k].quantity = last.qty

(***************************************************************************)
(* Vocabulary of the properties of the aggregator                          *)
(***************************************************************************)
\* the number of names in the list that are key, ignoring case and
\* surrounding blanks
occurrences(names, key) ==
  Cardinality({k \in 1..Len(names) : toLowerCase(trim(names[k])) = key})

\* the sum, over the entries of c, of quantity times the occurrences of key
\* in the entry's inside and on-top lists
RECURSIVE referenced(_, _)
referenced(c, key) ==
  IF c = <<>> THEN 0
  ELSE Head(c).quantity
         * occurrences(Head(c).ingredients_inside \o Head(c).ingredients_on_top, key)
       + referenced(Tail(c), key)

\* some entry of the cart is in a roll category
anyRoll(c) ==
  \E k \in 1..Len(c) : c[k].category \in {MakiRolls, SpecialityRolls}

\* the lower-cased names of the three smart ingredients: rice, soy sauce, wasabi
smartKeys ==
  {<<114, 105, 99, 101>>,
   <<115, 111, 121, 32, 115, 97, 117, 99, 101>>,
   <<119, 97, 115, 97, 98, 105>>}

\* every lower-cased ingredient name of the menu, the catalogs and the smart list
allKeys ==
  smartKeys
    \cup {toLowerCase(trim(n)) :
            n \in UNION {{i.ingredients_inside[k] : k \in 1..Len(i.ingredients_inside)}
                           \cup {i.ingredients_on_top[k] : k \in 1..Len(i.ingredients_on_top)} :
                         i \in MenuItems}}
    \cup UNION {{toLowerCase(flat(cat)[k].name) : k \in 1..Len(flat(cat))} : cat \in Catalogs}

\* the records of the shopping list for key; the quantity reported for it
\* (0 when the list has no record of that name)
reportedAt(key) ==
  LET list == cartIngredientsList(cart, ingredients)
  IN {k \in 1..Len(list) : toLowerCase(list[k].name) = key}

reportedQty(key) ==
  LET list == cartIngredientsList(cart, ingredients)
      at == {k \in 1..Len(list) : toLowerCase(list[k].name) = key}
  IN IF at = {} THEN 0 ELSE list[CHOOSE k \in at : TRUE].totalQty

\* the catalog holds an ingredient of that lower-cased name
inCatalog(key) ==
  \E k \in 1..Len(flat(ingredients)) : toLowerCase(flat(ingredients)[k].name) = key

(***************************************************************************)
(* C7: for every cart and catalog, the totalQty reported for an            *)
(* ingredient is the sum of the quantities of the entries referencing it   *)
(* (once per occurrence, case-insensitively), plus 1 when it is Rice,      *)
(* Soy Sauce or Wasabi and the cart holds a roll.                          *)
(***************************************************************************)
C7_TotalQtyIsSumPlusBonus ==
  \A key \in allKeys \ {EmptyStr} :
    reportedQty(key)
      = referenced(cart, key) + (IF key \in smartKeys /\ anyRoll(cart) THEN 1 ELSE 0)

(***************************************************************************)
(* C8: for all carts with at least one roll entry, and for every catalog,  *)
(* the output contains Rice, Soy Sauce and Wasabi, each with               *)
(* totalQty >= 1.                                                          *)
(***************************************************************************)
C8_SmartIngredientsWithRolls ==
  anyRoll(cart) =>
    \A key \in smartKeys : reportedAt(key) # {} /\ reportedQty(key) >= 1

(***************************************************************************)
(* C9: for all carts with no roll entry, none of Rice, Soy Sauce, Wasabi   *)
(* appears in the output unless some entry lists it (case-insensitively)   *)
(* inside or on top.                                                       *)
(***************************************************************************)
C9_NoSmartWithoutRolls ==
  ~anyRoll(cart) =>
    \A key \in smartKeys : reportedAt(key) # {} => referenced(cart, key) > 0

\* a cart without rolls whose item lists rice: rice is reported, soy sauce
\* and wasabi, both in the catalog, are not
C9_Witness ==
  /\ cart # <<>>
  /\ ~anyRoll(cart)
  /\ \A key \in smartKeys : inCatalog(key)
  /\ \E key \in smartKeys : reportedAt(key) # {}
  /\ \E key \in smartKeys : reportedAt(key) = {}

(***************************************************************************)
(* C10: with the example catalog, the cart holding Spicy Tuna Roll at      *)
(* quantity 2 yields Rice 3, Tuna 2, Spicy Mayo 2, Soy Sauce 1, Wasabi 1;  *)
(* whatever the roll entries and their quantities, the smart baseline is   *)
(* a flat 1 on top of which the direct references accumulate.              *)
(***************************************************************************)
C10_ExampleAndFlatBaseline ==
  ingredients = ExampleCatalog =>
    /\ cart = <<entryOf(SpicyTunaRoll, 2)>> =>
         /\ reportedQty(toLowerCase(Rice)) = 3
         /\ reportedQty(toLowerCase(Tuna)) = 2
         /\ reportedQty(toLowerCase(SpicyMayo)) = 2
         /\ reportedQty(toLowerCase(SoySauce)) = 1
         /\ reportedQty(toLowerCase(Wasabi)) = 1
         /\ Len(cartIngredientsList(cart, ingredients)) = 5
    /\ anyRoll(cart) =>
         \A key \in smartKeys : reportedQty(key) = 1 + referenced(cart, key)

\* the example cart of the specification, under the example catalog
C10_Witness ==
  /\ ingredients = ExampleCatalog
  /\ cart = <<entryOf(SpicyTunaRoll, 2)>>

(***************************************************************************)
(* Vocabulary of the properties of the sums                                *)
(***************************************************************************)
\* the positions of the entries of the cart that list key inside or on top
referencingEntries(key) ==
  {k \in 1..Len(cart) :
     occurrences(cart[k].ingredients_inside \o cart[k].ingredients_on_top, key) > 0}

\* the smart rule concerns key: it is a smart ingredient and the cart holds a roll
boostApplies(key) == key \in smartKeys /\ anyRoll(cart)

(***************************************************************************)
(* C11 as stated: for an ingredient referenced by exactly one cart item    *)
(* at quantity q, with no smart-ingredient boost applying to it, the       *)
(* reported totalQty is q.                                                 *)
(***************************************************************************)
C11_AsStated ==
  \A key \in allKeys \ {EmptyStr} :
    \A k \in 1..Len(cart) :
      (referencingEntries(key) = {k} /\ ~boostApplies(key))
        => reportedQty(key) = cart[k].quantity

(***************************************************************************)
(* C11, amended: for an ingredient listed exactly once (one occurrence in  *)
(* the inside and on-top lists together) by exactly one cart item at       *)
(* quantity q, with no smart-ingredient boost applying to it, the          *)
(* reported totalQty is q.                                                 *)
(***************************************************************************)
C11_SingleReference ==
  \A key \in allKeys \ {EmptyStr} :
    \A k \in 1..Len(cart) :
      ( /\ referencingEntries(key) = {k}
        /\ occurrences(cart[k].ingredients_inside \o cart[k].ingredients_on_top, key) = 1
        /\ ~boostApplies(key) )
        => reportedQty(key) = cart[k].quantity

\* in a cart of three entries, a catalog ingredient listed once by one entry
\* whose quantity is 4 is reported with 4
C11_Witness ==
  /\ Len(cart) = 3
  /\ \E key \in allKeys \ {EmptyStr} :
       \E k \in 1..Len(cart) :
         /\ referencingEntries(key) = {k}
         /\ occurrences(cart[k].ingredients_inside \o cart[k].ingredients_on_top, key) = 1
         /\ ~boostApplies(key)
         /\ inCatalog(key)
         /\ cart[k].quantity = 4
         /\ reportedQty(key) = 4

(***************************************************************************)
(* C12: an ingredient listed both inside and on top of the same cart item  *)
(* of quantity 1, referenced nowhere else and without smart boost, is      *)
(* reported with totalQty 2: the two lists are concatenated without        *)
(* deduplication.                                                          *)
(***************************************************************************)
C12_DoubleCounting ==
  \A key \in allKeys \ {EmptyStr} :
    \A k \in 1..Len(cart) :
      ( /\ referencingEntries(key) = {k}
        /\ cart[k].quantity = 1
        /\ occurrences(cart[k].ingredients_inside, key) = 1
        /\ occurrences(cart[k].ingredients_on_top, key) = 1
        /\ ~boostApplies(key) )
        => reportedQty(key) = 2

\* a catalog ingredient listed inside and on top of one entry of quantity 1,
\* in different letter case, is reported with 2
C12_Witness ==
  \E key \in allKeys \ {EmptyStr} :
    \E k \in 1..Len(cart) :
      /\ referencingEntries(key) = {k}
      /\ cart[k].quantity = 1
      /\ occurrences(cart[k].ingredients_inside, key) = 1
      /\ occurrences(cart[k].ingredients_on_top, key) = 1
      /\ inCatalog(key)
      /\ reportedQty(key) = 2

(***************************************************************************)
(* Vocabulary of the properties of the grouped output                      *)
(***************************************************************************)
\* the working records when the accumulation has ended
workingRecords ==
  LET m == ingredientMapOf(cart, ingredients)
  IN {m[k].val : k \in 1..Len(m)}

\* the places <<group, position>> of the grouped output that hold record r
placesOf(r) ==
  LET grouped == getCartIngredientsSummary(cart, ingredients).grouped
  IN {<<g, i>> \in (1..Len(grouped)) \X (1..Cardinality(workingRecords)) :
        i <= Len(grouped[g].val) /\ grouped[g].val[i] = r}

\* the key of the g-th group of the output
groupKey(g) == getCartIngredientsSummary(cart, ingredients).grouped[g].key

(***************************************************************************)
(* C13: a working record is in the grouped output if and only if its       *)
(* totalQty > 0, and then in exactly one group, the one keyed by its own   *)
(* category, or 'Other' when the category is empty; catalog ingredients    *)
(* never referenced and not boosted by the smart rule do not appear.       *)
(***************************************************************************)
C13_GroupingComplete ==
  LET grouped == getCartIngredientsSummary(cart, ingredients).grouped
  IN /\ \A r \in workingRecords :
          /\ (r.totalQty > 0) <=> (placesOf(r) # {})
          /\ r.totalQty > 0 =>
               /\ Cardinality(placesOf(r)) = 1
               /\ \A pl \in placesOf(r) :
                    groupKey(pl[1]) = (IF r.category = EmptyStr THEN Other ELSE r.category)
     /\ \A g \in 1..Len(grouped) :
          /\ grouped[g].val # <<>>
          /\ \A i \in 1..Len(grouped[g].val) : grouped[g].val[i] \in workingRecords
          /\ \A h \in 1..Len(grouped) : grouped[h].key = grouped[g].key => h = g
     /\ \A key \in allKeys :
          (inCatalog(key) /\ referenced(cart, key) = 0 /\ ~boostApplies(key))
            => reportedAt(key) = {}

\* the output holds a catalog record without category next to a fallback
\* record in 'Other', while a catalog record with totalQty 0 is left out
C13_Witness ==
  /\ \E r \in workingRecords : r.totalQty = 0 /\ placesOf(r) = {}
  /\ \E r, s \in workingRecords :
       /\ r.category = EmptyStr /\ s.category = Other
       /\ \E pr \in placesOf(r), ps \in placesOf(s) :
            pr[1] = ps[1] /\ groupKey(pr[1]) = Other

(***************************************************************************)
(* Vocabulary of the properties of the order                               *)
(***************************************************************************)
\* a is before b in the lexicographic order of the code units
lexBefore(a, b) ==
  \E p \in 1..(Len(b)) :
    /\ \A q \in 1..(p - 1) : q <= Len(a) /\ a[q] = b[q]
    /\ (p = Len(a) + 1 \/ (p <= Len(a) /\ a[p] < b[p]))

(***************************************************************************)
(* C14: sortedCats lists exactly the keys of grouped, without duplicates,  *)
(* in ascending lexicographic order, and within every category group the   *)
(* records are in ascending order of name (by localeCompare).              *)
(***************************************************************************)
C14_Ordering ==
  LET s == getCartIngredientsSummary(cart, ingredients)
  IN /\ Len(s.sortedCats) = Len(s.grouped)
     /\ {s.sortedCats[i] : i \in 1..Len(s.sortedCats)}
          = {s.grouped[g].key : g \in 1..Len(s.grouped)}
     /\ \A i, j \in 1..Len(s.sortedCats) :
          i < j => lexBefore(s.sortedCats[i], s.sortedCats[j])
     /\ \A g \in 1..Len(s.grouped) :
          \A i, j \in 1..Len(s.grouped[g].val) :
            i < j => localeCompare(s.grouped[g].val[i].name, s.grouped[g].val[j].name) < 0

\* the categories were not met in sorted order, and a group holds two
\* neighbours whose locale order is the reverse of their code-unit order;
\* a category in lower case comes after the capitalised ones
C14_Witness ==
  LET s == getCartIngredientsSummary(cart, ingredients)
  IN /\ Len(s.sortedCats) >= 3
     /\ s.sortedCats # [g \in 1..Len(s.grouped) |-> s.grouped[g].key]
     /\ s.sortedCats[Len(s.sortedCats)] = FishLower
     /\ \E g \in 1..Len(s.grouped) :
          \E i \in 1..(Len(s.grouped[g].val) - 1) :
            lexBefore(s.grouped[g].val[i + 1].name, s.grouped[g].val[i].name)

(***************************************************************************)
(* Vocabulary of the properties of the fallback records                    *)
(***************************************************************************)
\* the sum of the quantities of the entries of c that list key
RECURSIVE quantitiesOfReferencing(_, _)
quantitiesOfReferencing(c, key) ==
  IF c = <<>> THEN 0
  ELSE (IF occurrences(Head(c).ingredients_inside \o Head(c).ingredients_on_top, key) > 0
          THEN Head(c).quantity ELSE 0)
       + quantitiesOfReferencing(Tail(c), key)

\* every ingredient name of the cart as written, blanks trimmed, in the order
\* of the entries, inside before on top
RECURSIVE spellings(_)
spellings(c) ==
  IF c = <<>> THEN <<>>
  ELSE [k \in 1..Len(Head(c).ingredients_inside \o Head(c).ingredients_on_top) |->
          trim((Head(c).ingredients_inside \o Head(c).ingredients_on_top)[k])]
       \o spellings(Tail(c))

\* the first spelling of key in the cart
firstSpelling(c, key) ==
  LET all == spellings(c)
      first == CHOOSE k \in 1..Len(all) :
                 /\ toLowerCase(all[k]) = key
                 /\ \A j \in 1..(k - 1) : toLowerCase(all[j]) # key
  IN all[first]

\* the records of the shopping list
listedRecords ==
  LET list == cartIngredientsList(cart, ingredients)
  IN {list[k] : k \in 1..Len(list)}

(***************************************************************************)
(* C15 as stated: a name referenced by cart entries but absent from the    *)
(* catalog yields a record with category 'Other', store '' and totalQty    *)
(* equal to the sum of the referencing entries' quantities.                *)
(***************************************************************************)
C15_AsStated ==
  \A key \in allKeys \ {EmptyStr} :
    (~inCatalog(key) /\ referencingEntries(key) # {}) =>
      \E r \in listedRecords :
        /\ toLowerCase(r.name) = key
        /\ r.category = Other
        /\ r.store = EmptyStr
        /\ r.totalQty = quantitiesOfReferencing(cart, key)

(***************************************************************************)
(* C15, amended: a name referenced by cart entries but absent from the     *)
(* catalog yields one fallback record with the name as first written,      *)
(* category 'Other', store '' and totalQty equal to the sum of the         *)
(* referencing entries' quantities, each entry counted once per            *)
(* occurrence of the name in its inside and on-top lists; 'Gari' listed    *)
(* once by an item of quantity 3 yields {Gari, Other, '', 3}.              *)
(***************************************************************************)
C15_FallbackRecord ==
  /\ \A key \in allKeys \ {EmptyStr} :
       (~inCatalog(key) /\ referencingEntries(key) # {}) =>
         /\ Cardinality(reportedAt(key)) = 1
         /\ [name |-> firstSpelling(cart, key), category |-> Other,
             store |-> EmptyStr, totalQty |-> referenced(cart, key)] \in listedRecords
  /\ cart = <<entryOf(SalmonNigiri, 3)>> =>
       [name |-> Gari, category |-> Other, store |-> EmptyStr, totalQty |-> 3]
         \in listedRecords

\* the example: only the item listing 'Gari' once is in the cart, at quantity
\* 3, under a catalog that holds other ingredients but not 'Gari'
C15_Witness ==
  /\ cart = <<entryOf(SalmonNigiri, 3)>>
  /\ ingredients = ExampleCatalog
  /\ [name |-> Gari, category |-> Other, store |-> EmptyStr, totalQty |-> 3]
       \in listedRecords

\* the name the catalog gives to key
catalogName(key) ==
  LET records == flat(ingredients)
      at == CHOOSE k \in 1..Len(records) :
              /\ toLowerCase(records[k].name) = key
              /\ \A j \in (k + 1)..Len(records) : toLowerCase(records[j].name) # key
  IN records[at].name

\* the spellings of key in the cart
spellingsOf(key) ==
  {spellings(cart)[k] : k \in {j \in 1..Len(spellings(cart)) :
                                 toLowerCase(spellings(cart)[j]) = key}}

(***************************************************************************)
(* C16: ingredient names that differ only in letter case, between cart     *)
(* items or between a cart item and the catalog, are aggregated into a     *)
(* single output record that covers every reference, and when the          *)
(* ingredient is in the catalog the record carries the catalog's name as   *)
(* the catalog writes it.                                                  *)
(***************************************************************************)
C16_CaseInsensitiveMerge ==
  \A key \in allKeys \ {EmptyStr} :
    LET list == cartIngredientsList(cart, ingredients)
    IN /\ Cardinality(reportedAt(key)) <= 1
       /\ referenced(cart, key) > 0 =>
            /\ Cardinality(reportedAt(key)) = 1
            /\ reportedQty(key) >= referenced(cart, key)
       /\ inCatalog(key) =>
            \A k \in reportedAt(key) :
              /\ list[k].name = catalogName(key)
              /\ list[k].category = objGet(catalogMap(<<>>, flat(ingredients)), key).category

\* the cart spells an ingredient of the catalog in two ways, one of them not
\* the catalog's, and the list holds one record for it under the catalog's name
C16_Witness ==
  \E key \in allKeys \ {EmptyStr} :
    /\ inCatalog(key)
    /\ Cardinality(spellingsOf(key)) >= 2
    /\ Cardinality(referencingEntries(key)) >= 2
    /\ \E k \in reportedAt(key) :
         /\ cartIngredientsList(cart, ingredients)[k].name = catalogName(key)
         /\ cartIngredientsList(cart, ingredients)[k].totalQty >= 2

(***************************************************************************)
(* C17: running getCartIngredientsSummary a second time on the cart and    *)
(* the catalog the first run left yields the same grouped output and the   *)
(* same sortedCats as the first run, the output the cart's and the         *)
(* catalog's values determine.                                             *)
(***************************************************************************)
C17_Idempotent ==
  LET first == summaryCall(cart, ingredients)
      second == summaryCall(first.cart, first.ingredients)
  IN /\ second.result.grouped = first.result.grouped
     /\ second.result.sortedCats = first.result.sortedCats
     /\ first.result = getCartIngredientsSummary(cart, ingredients)

\* two runs over a cart with a roll and a catalog ingredient the cart uses:
\* the second reports the same positive quantities
C17_Witness ==
  LET first == summaryCall(cart, ingredients)
      second == summaryCall(first.cart, first.ingredients)
  IN /\ hasRolls(cart)
     /\ Len(first.result.sortedCats) >= 2
     /\ second.result = first.result
     /\ \E key \in allKeys : inCatalog(key) /\ referenced(cart, key) >= 2

(***************************************************************************)
(* C18: when getCartIngredientsSummary has returned, the cart's entries    *)
(* and the catalog's records are as before the call, and no catalog        *)
(* record has a totalQty field.                                            *)
(***************************************************************************)
C18_NoSideEffects ==
  LET after == summaryCall(cart, ingredients)
  IN /\ after.cart = cart
     /\ after.ingredients = ingredients
     /\ \A k \in 1..Len(flat(after.ingredients)) :
          "totalQty" \notin DOMAIN flat(after.ingredients)[k]

\* the call has counted a catalog ingredient on its working record, and the
\* catalog's record of it has no totalQty
C18_Witness ==
  LET after == summaryCall(cart, ingredients)
      list == flat(objValues(after.result.grouped))
  IN \E k \in 1..Len(list) :
       \E j \in 1..Len(flat(after.ingredients)) :
         /\ list[k].name = flat(after.ingredients)[j].name
         /\ list[k].totalQty > 0
         /\ "totalQty" \notin DOMAIN flat(after.ingredients)[j]
         /\ after.cart = cart

(***************************************************************************)
(* C19: for every cart and catalog, getCartIngredientsSummary returns a    *)
(* result and raises no error.                                             *)
(***************************************************************************)
C19_NeverFails == ~summaryOutcome(cart, ingredients).threw

(***************************************************************************)
(* Vocabulary of the properties of carts loaded from event menus           *)
(***************************************************************************)
\* the entry has a quantity field
hasQuantity(i) == "quantity" \in DOMAIN i

\* the cart with quantity 1 written on every entry that has none
withDefaultQuantity(c) ==
  [k \in 1..Len(c) |-> IF hasQuantity(c[k]) THEN c[k] ELSE withQuantity(c[k], 1)]

\* the occurrences of key in the lists the entry has
occurrencesIn(entry, key) ==
  occurrences((IF "ingredients_inside" \in DOMAIN entry
                 THEN entry.ingredients_inside ELSE <<>>)
                \o (IF "ingredients_on_top" \in DOMAIN entry
                      THEN entry.ingredients_on_top ELSE <<>>),
              key)

\* the occurrences of key in the entries of c
RECURSIVE occurrencesInCart(_, _)
occurrencesInCart(c, key) ==
  IF c = <<>> THEN 0
  ELSE occurrencesIn(Head(c), key) + occurrencesInCart(Tail(c), key)

(***************************************************************************)
(* C20: a cart entry that lacks a quantity field contributes exactly 1     *)
(* per ingredient occurrence to totalQty: the summary is the summary of    *)
(* the cart with quantity 1 written on such entries, and an ingredient     *)
(* listed only by such entries, with no smart rule concerning it, is       *)
(* reported at the number of its occurrences.                              *)
(***************************************************************************)
C20_MissingQuantityCountsOne ==
  ~summaryOutcome(cart, ingredients).threw =>
    /\ summaryOutcome(cart, ingredients).value
         = summaryOutcome(withDefaultQuantity(cart), ingredients).value
    /\ \A key \in allKeys \ {EmptyStr} :
         ( /\ ~boostApplies(key)
           /\ \A k \in 1..Len(cart) :
                occurrencesIn(cart[k], key) > 0 => ~hasQuantity(cart[k]) )
           => reportedQty(key) = occurrencesInCart(cart, key)

\* two entries without quantity list the same ingredient, which the loaded
\* catalog holds, and the list reports it at 2
C20_Witness ==
  /\ ~summaryOutcome(cart, ingredients).threw
  /\ ingredients # EmptyCatalog
  /\ \E key \in allKeys \ {EmptyStr} :
       /\ ~boostApplies(key)
       /\ inCatalog(key)
       /\ Cardinality({k \in 1..Len(cart) :
                         occurrencesIn(cart[k], key) > 0 /\ ~hasQuantity(cart[k])}) = 2
       /\ \A k \in 1..Len(cart) : occurrencesIn(cart[k], key) > 0 => ~hasQuantity(cart[k])
       /\ reportedQty(key) = 2

\* the (name, category) pairs of the entries of c
keysOf(c) == {<<c[k].name, c[k].category>> : k \in 1..Len(c)}

(***************************************************************************)
(* C26: setCartQuantity(item, qty) with qty >= 1 for an item that has no   *)
(* entry in the cart leaves the cart unchanged, and of the cart            *)
(* operations only addToCart brings a new (name, category) into the cart.  *)
(***************************************************************************)
C26_SetQuantityNeverInserts ==
  /\ ( /\ last.op = "setCartQuantity"
       /\ last.qty >= 1
       /\ matching(last.prev, last.item) = {} )
       => cart = last.prev
  /\ last.op \in {"setCartQuantity", "removeFromCart"} =>
       keysOf(cart) \subseteq keysOf(last.prev)

\* setCartQuantity at a quantity of at least 1 has just been applied to a
\* non-empty cart without entry for the item
C26_Witness ==
  /\ last.op = "setCartQuantity"
  /\ last.qty >= 1
  /\ last.prev # <<>>
  /\ matching(last.prev, last.item) = {}
  /\ cart = last.prev

\* the lower-cased names of the cart sidebar and of the shopping list
sidebarNames ==
  LET shown == getCartIngredients(cart, ingredients)
  IN {toLowerCase(shown[k].name) : k \in 1..Len(shown)}

shoppingNames ==
  LET list == cartIngredientsList(cart, ingredients)
  IN {toLowerCase(list[k].name) : k \in 1..Len(list)}

(***************************************************************************)
(* C30: for every cart reachable by the cart operations and every          *)
(* catalog, the lower-cased names of the cart sidebar are among the        *)
(* lower-cased names of the shopping list, the two sets are equal when     *)
(* the cart has no roll, and the names the shopping list adds are among    *)
(* rice, soy sauce and wasabi.                                             *)
(***************************************************************************)
C30_SidebarWithinShoppingList ==
  /\ sidebarNames \subseteq shoppingNames
  /\ ~anyRoll(cart) => sidebarNames = shoppingNames
  /\ shoppingNames \ sidebarNames \subseteq smartKeys

\* a cart with a roll whose shopping list shows the sidebar's names and a
\* smart ingredient the sidebar does not show
C30_Witness ==
  /\ anyRoll(cart)
  /\ Cardinality(sidebarNames) >= 3
  /\ sidebarNames \subseteq shoppingNames
  /\ shoppingNames \ sidebarNames # {}

(***************************************************************************)
(* C23: a successful event-menu load, for the location or from the lookup  *)
(* form, replaces the whole cart with the event's menu_data, the empty     *)
(* cart when menu_data is absent, and sets selectedEventMenu and           *)
(* currentEventId to the event; a failed load leaves cart,                 *)
(* selectedEventMenu, currentEventId and activeNav unchanged.              *)
(***************************************************************************)
C23_LoadReplacesCart ==
  /\ last.op = "loadSucceeds" =>
       /\ cart = (IF "menu_data" \in DOMAIN last.eventMenu
                    THEN last.eventMenu.menu_data ELSE <<>>)
       /\ selectedEventMenu = <<last.eventMenu>>
       /\ currentEventId = last.load.id
  /\ last.op = "loadFails" =>
       /\ cart = last.prev.cart
       /\ selectedEventMenu = last.prev.selectedEventMenu
       /\ currentEventId = last.prev.currentEventId
       /\ activeNav = last.prev.activeNav

\* a load has succeeded over a cart that was not empty, and the cart is the
\* event's menu_data
C23_Witness ==
  /\ last.op = "loadSucceeds"
  /\ last.prev.cart # <<>>
  /\ "menu_data" \in DOMAIN last.eventMenu
  /\ cart = last.eventMenu.menu_data
  /\ currentEventId = last.load.id

\* the latest operation left an event: the close button, or a popstate to a
\* location without event id while currentEventId was set
leftEvent ==
  \/ last.op = "close"
  \/ /\ last.op = "popstate"
     /\ last.newUrl = Null
     /\ last.prev.currentEventId # Null

(***************************************************************************)
(* C24: leaving an event, by the close button or by a popstate to a        *)
(* location without event id while currentEventId is set, resets cart to   *)
(* empty and selectedEventMenu and currentEventId to null; in every        *)
(* reachable state selectedEventMenu is null exactly when currentEventId   *)
(* is null.                                                                *)
(***************************************************************************)
C24_LeaveResetsTogether ==
  /\ leftEvent =>
       /\ cart = <<>>
       /\ selectedEventMenu = NoEventMenu
       /\ currentEventId = Null
  /\ selectedEventMenu = NoEventMenu <=> currentEventId = Null

\* a popstate to a location without event id has just emptied the cart of an event
C24_Witness ==
  /\ last.op = "popstate"
  /\ last.newUrl = Null
  /\ last.prev.currentEventId # Null
  /\ last.prev.cart # <<>>
  /\ last.prev.selectedEventMenu # NoEventMenu
  /\ cart = <<>>
  /\ selectedEventMenu = NoEventMenu
  /\ currentEventId = Null

(***************************************************************************)
(* C29: whenever no load is in flight, currentEventId is null or the       *)
(* event id of the current location.                                       *)
(***************************************************************************)
C29_EventIdFollowsUrl ==
  pending = EmptyBag => (currentEventId = Null \/ currentEventId = url)

\* the request failed: the fetch rejected, the body was not JSON, or the
\* response had an error status
failed(response) ==
  \/ response.kind \in {"rejected", "text"}
  \/ ~response.ok

(***************************************************************************)
(* C22: when the initial fetch of menu, ingredients or runbook fails, the  *)
(* app ends with loading = false, error set to the load-failure message    *)
(* and menu, ingredients and runbook at their initial empty values; in     *)
(* both outcomes loading has become false.                                 *)
(***************************************************************************)
C22_FailedFetch ==
  last.op = "fetchSettles" =>
    /\ ~loading
    /\ (\E k \in 1..3 : failed(last.responses[k])) =>
         /\ error = LoadFailureMessage
         /\ menu = <<>>
         /\ ingredients = EmptyCatalog
         /\ runbook = <<>>

(***************************************************************************)
(* Vocabulary of the properties of the runbook table                       *)
(***************************************************************************)
\* the unit of a timeline (1 days, 2 hours, 3 minutes, 4 'T-0') and its number
unitOf(timeline) ==
  IF \E n \in TimelineNumbers : timeline = DayTimeline(n) THEN 1
  ELSE IF \E n \in TimelineNumbers : timeline = HourTimeline(n) THEN 2
  ELSE IF \E n \in TimelineNumbers : timeline = MinuteTimeline(n) THEN 3
  ELSE 4

numberOf(timeline) ==
  IF unitOf(timeline) = 4 THEN 0
  ELSE CHOOSE n \in TimelineNumbers :
         timeline \in {DayTimeline(n), HourTimeline(n), MinuteTimeline(n)}

\* the two steps are compared by timeline, and the table shows the first
\* of the rows given before the second
byTimeline(a, b) == ~("sort_order" \in DOMAIN a /\ "sort_order" \in DOMAIN b)

rowsInOrder(first, second) == runbookRows(runbook) = <<first, second>>

(***************************************************************************)
(* C25: for runbook steps compared by timeline, every 'T-n day(s)' step is *)
(* placed before every 'T-nH' step, every hour step before every 'T-nM'    *)
(* step, and every minute step before 'T-0', for every positive n; within  *)
(* one unit the larger n is placed earlier.                                *)
(***************************************************************************)
C25_TimelineOrder ==
  Len(runbook) = 2 =>
    \A i \in 1..2 :
      LET a == runbook[i]
          b == runbook[3 - i]
      IN ( /\ byTimeline(a, b)
           /\ \/ unitOf(a.timeline) < unitOf(b.timeline)
              \/ /\ unitOf(a.timeline) = unitOf(b.timeline)
                 /\ numberOf(a.timeline) > numberOf(b.timeline) )
           => rowsInOrder(a, b)

(***************************************************************************)
(* Vocabulary of the properties of the marks                               *)
(***************************************************************************)
\* the elements of an array
elementsOf(arr) == {arr[k] : k \in 1..Len(arr)}

needToBuy == needToBuyIngredients(shoppingList, alreadyHaveIngredients)

alreadyHave == alreadyHaveList(shoppingList, alreadyHaveIngredients)

MarkOperations == {"markAsAlreadyHave", "unmarkAsAlreadyHave"}

(***************************************************************************)
(* C21: the 'need to buy' list and the 'already have' list are a partition *)
(* of the aggregator's output: every aggregated ingredient is in exactly   *)
(* one of them, in 'already have' exactly when its key is in the           *)
(* already-have set; marking and unmarking change neither a totalQty nor   *)
(* the aggregator's output.                                                *)
(***************************************************************************)
C21_Partition ==
  /\ Len(needToBuy) + Len(alreadyHave) = Len(shoppingList)
  /\ elementsOf(needToBuy) \cup elementsOf(alreadyHave) = elementsOf(shoppingList)
  /\ elementsOf(needToBuy) \cap elementsOf(alreadyHave) = {}
  /\ \A ing \in elementsOf(shoppingList) :
       ing \in elementsOf(alreadyHave)
         <=> alreadyHaveKey(ing) \in alreadyHaveIngredients
  /\ last.op \in MarkOperations =>
       /\ shoppingList = cartIngredientsList(last.prev, ingredients)
       /\ getCartIngredientsSummary(cart, ingredients)
            = getCartIngredientsSummary(last.prev, ingredients)

\* an ingredient has just been marked, and both lists have rows
C21_Witness ==
  /\ last.op = "markAsAlreadyHave"
  /\ needToBuy # <<>>
  /\ alreadyHave # <<>>

(***************************************************************************)
(* C27: marking or unmarking an ingredient never changes which list        *)
(* another aggregated ingredient, one that differs from it in name, store  *)
(* or category, is in.                                                     *)
(***************************************************************************)
C27_OthersStay ==
  last.op \in MarkOperations =>
    \A other \in elementsOf(shoppingList) :
      ( \/ other.name # last.ingredient.name
        \/ other.store # last.ingredient.store
        \/ other.category # last.ingredient.category )
        => ( isAlreadyHave(alreadyHaveIngredients, other)
               <=> isAlreadyHave(last.have, other) )

(***************************************************************************)
(* C28: the already-have set is changed only by markAsAlreadyHave and      *)
(* unmarkAsAlreadyHave: the cart operations and the event-menu loads leave *)
(* it unchanged, and marking and unmarking leave the cart unchanged.       *)
(***************************************************************************)
C28_OnlyMarksChangeTheSet ==
  [][ /\ last'.op \notin MarkOperations
           => alreadyHaveIngredients' = alreadyHaveIngredients
      /\ last'.op \in MarkOperations => cart' = cart ]_vars

\* the cart was empty and the roll has just been added again: rice, marked
\* when the roll was in the cart before, is in 'already have'
C28_Witness ==
  /\ last.op = "addToCart"
  /\ last.prev = <<>>
  /\ \E ing \in elementsOf(alreadyHave) : ing.name = Rice

====
